---- MODULE Spec2Model ----
(***************************************************************************)
(* A model of the Light smart account of permissionless.js                 *)
(* (packages/permissionless/accounts/light/toLightSmartAccount.ts) and of  *)
(* the ERC-7579 uninstallModule scenario.                                  *)
(*                                                                         *)
(* The operations are the methods of the implementation object that        *)
(* toLightSmartAccount hands to toSmartAccount.  A caller may invoke them  *)
(* in any order and may overlap invocations: every `await` of the source   *)
(* is a point where another invocation can run, so an invocation is a      *)
(* process whose position (pc) is the await it is suspended at.            *)
(***************************************************************************)
EXTENDS Integers, Sequences, FiniteSets, TLC

(***************************************************************************)
(* Bounds of the model.                                                    *)
(***************************************************************************)
\* invocations in flight at once, where the claims are about overlapping calls
MaxProcs == 2
\* invocations in flight at once, where the claims are about one signing call
MaxSigners == 1
\* invocations started in one behaviour
MaxInvocations == 2
\* longest list of calls handed to encodeCalls
MaxCalls == 3

(***************************************************************************)
(* Values.                                                                 *)
(***************************************************************************)
\* `undefined` for an Address-typed value
NoAddress == "undefined"
\* `let chainId: number` before its first assignment; `if (chainId)` treats
\* undefined and 0 alike
NoChainId == 0
\* `undefined` for a bigint nonce key
NoKey == -1

OwnerAddress == "0xOwner"
ExplicitAddress == "0xExplicit"
CustomFactory == "0xCustomFactory"
EntryPoint06Address == "0xEntryPoint06"
entryPoint07Address == "0xEntryPoint07"

\* the versions the type LightAccountVersion admits, and one it does not
KnownVersions == {"1.1.0", "2.0.0"}
Versions == KnownVersions \cup {"3.0.0"}

\* chain ids the client or the network can report
StaticChainId == 1
NetworkChainId == 5

Messages == {1}
NonceKeys == {0}
ConfiguredNonceKey == 7

LIGHT_VERSION_TO_ADDRESSES_MAP ==
    [v \in KnownVersions |->
        IF v = "1.1.0" THEN [factoryAddress |-> "0x00004EC7"]
                       ELSE [factoryAddress |-> "0x00000000004"]]

\* getDefaultAddresses: the lookup LIGHT_VERSION_TO_ADDRESSES_MAP[version] of a
\* version that is no key yields undefined, whose .factoryAddress is a TypeError
getDefaultAddresses(lightAccountVersion, _factoryAddress) ==
    IF _factoryAddress # NoAddress
    THEN [ok |-> TRUE, factoryAddress |-> _factoryAddress]
    ELSE IF lightAccountVersion \in KnownVersions
         THEN [ok |-> TRUE,
               factoryAddress |->
                   LIGHT_VERSION_TO_ADDRESSES_MAP[lightAccountVersion].factoryAddress]
         ELSE [ok |-> FALSE, factoryAddress |-> NoAddress]

\* the entryPoint object built at construction (address and version)
EntryPointOf(param) ==
    IF param = "0.6"
    THEN [address |-> EntryPoint06Address, version |-> "0.6"]
    ELSE [address |-> entryPoint07Address, version |-> "0.7"]

\* getAccountInitCode: createAccount(owner, index), or the owner-missing error
getAccountInitCode(ownerAddr, index) ==
    IF ownerAddr = NoAddress
    THEN [ok |-> FALSE, fn |-> "Owner account not found", args |-> <<>>]
    ELSE [ok |-> TRUE, fn |-> "createAccount", args |-> <<ownerAddr, index>>]

\* getSenderAddress: the address the entry point derives for the factory call;
\* a function of (factory, factoryData, entryPointAddress) alone
getSenderAddress(factory, factoryData, entryPointAddress) ==
    "0xAccount" \o factory \o entryPointAddress

(***************************************************************************)
(* Hashing and signing collaborators (viem).  A digest keeps what was      *)
(* hashed, so two digests are equal exactly when their inputs are.         *)
(***************************************************************************)
NoDigest == [alg |-> "none", of |-> 0, signature |-> "0x",
             entryPointAddress |-> NoAddress, entryPointVersion |-> "",
             chainId |-> NoChainId]

hashMessage(message) == [NoDigest EXCEPT !.alg = "hashMessage", !.of = message]

hashTypedData(typedData) ==
    [NoDigest EXCEPT !.alg = "hashTypedData", !.of = typedData]

\* getUserOperationHash over the user operation it is handed, signature field
\* included, the entry point and the chain id
getUserOperationHash(userOperation, entryPointAddress, entryPointVersion, chain) ==
    [alg |-> "getUserOperationHash", of |-> userOperation.callData,
     signature |-> userOperation.signature,
     entryPointAddress |-> entryPointAddress,
     entryPointVersion |-> entryPointVersion, chainId |-> chain]

NoDomain == [chainId |-> NoChainId, name |-> "", verifyingContract |-> NoAddress,
             version |-> ""]
\* nothing has been asked of the owner key
NoRequest == [kind |-> "none", domain |-> NoDomain, primaryType |-> "",
              message |-> NoDigest]

\* a faulty variant: the wrapper names the owner, not the account, as verifying contract
signWith1271WrapperV1_ownerAsContract(chain, accountAddr, hashedMessage) ==
    [kind |-> "signTypedData",
     domain |-> [chainId |-> chain, name |-> "LightAccount",
                 verifyingContract |-> OwnerAddress, version |-> "1"],
     primaryType |-> "LightAccountMessage",
     message |-> hashedMessage]

\* signWith1271WrapperV1: what signer.signTypedData is asked to sign
signWith1271WrapperV1(chain, accountAddr, hashedMessage) ==
    [kind |-> "signTypedData",
     domain |-> [chainId |-> chain, name |-> "LightAccount",
                 verifyingContract |-> accountAddr, version |-> "1"],
     primaryType |-> "LightAccountMessage",
     message |-> hashedMessage]

\* signMessage(client, {account: owner, message: {raw: hash}}): the owner key
\* signs the raw hash as a personal message
signMessageRaw(hash) ==
    [kind |-> "signMessage", domain |-> NoDomain, primaryType |-> "",
     message |-> hash]

\* one byte that depends on everything the owner key was asked to sign
RequestByte(req) ==
    ( (IF req.kind = "signTypedData" THEN 128 ELSE 0)
    + (IF req.message.alg = "hashMessage" THEN 16
       ELSE IF req.message.alg = "hashTypedData" THEN 32 ELSE 48)
    + req.message.of
    + (IF req.message.signature = "0x" THEN 0 ELSE 64)
    + 2 * req.message.chainId + 3 * req.domain.chainId
    + (IF req.domain.verifyingContract = ExplicitAddress THEN 1 ELSE 0) ) % 256

\* the owner's ECDSA signature: r (32 bytes), s (32 bytes), v (1 byte)
OwnerSignature(req) ==
    [i \in 1..32 |-> RequestByte(req)] \o [i \in 1..32 |-> (RequestByte(req) + 1) % 256]
        \o <<27>>

\* enum SignatureType { EOA = "0x00" }
SignatureTypeEOA == <<0>>

\* the placeholder of getStubSignature
StubSignature ==
    [i \in 1..15 |-> 255] \o <<240>> \o [i \in 1..16 |-> 0] \o <<122>>
        \o [i \in 1..31 |-> 170] \o <<28>>

\* a faulty variant: the signer tag is appended to the signature instead of prefixed
tagSignature_appendsTag(version, signature) ==
    CASE version = "1.1.0" -> [ok |-> TRUE, sig |-> signature]
      [] version = "2.0.0" -> [ok |-> TRUE, sig |-> signature \o SignatureTypeEOA]
      [] OTHER -> [ok |-> FALSE, sig |-> <<>>]

\* the switch (version) that ends every signature-producing method
tagSignature(version, signature) ==
    CASE version = "1.1.0" -> [ok |-> TRUE, sig |-> signature]
      [] version = "2.0.0" -> [ok |-> TRUE, sig |-> SignatureTypeEOA \o signature]
      [] OTHER -> [ok |-> FALSE, sig |-> <<>>]

(***************************************************************************)
(* State.                                                                  *)
(***************************************************************************)
VARIABLES
    cfg,             \* the parameters of toLightSmartAccount, fixed at construction
    accountAddress,  \* `let accountAddress`: the cached address
    chainId,         \* `let chainId`: the cached chain id
    procs,           \* the invocations in flight, and the last result of each
    started,         \* invocations started so far
    fetchCount,      \* getChainId requests issued so far
    calls,           \* encodeCalls: the list of calls it is handed
    encoded,         \* encodeCalls: what it returned or threw
    testPc,          \* uninstallModule scenario: position in the test body
    opHash,          \* ... the hash installModule returned
    uninstallModuleUserOpHash,           \* ... the hash uninstallModule returned
    userOperationReceiptUninstallModule, \* ... the awaited receipt
    receiptUninstallModule,              \* ... the receipt fetched directly
    awaited,         \* ... the operation hashes whose receipt the test holds
    submitted        \* ... the operations handed to the bundler, in order

acctVars == <<cfg, accountAddress, chainId, procs, started, fetchCount>>
encVars == <<calls, encoded>>
testVars == <<testPc, opHash, uninstallModuleUserOpHash,
              userOperationReceiptUninstallModule, receiptUninstallModule,
              awaited, submitted>>
vars == <<acctVars, encVars, testVars>>

NoUserOperation == [callData |-> 0, signature |-> "0x", chainId |-> NoChainId]
UserOperations ==
    [callData : {1}, signature : {"0x", "0xdead"},
     chainId : {NoChainId, StaticChainId}]

IdleProc ==
    [op |-> "idle", pc |-> "idle", msg |-> 0, key |-> NoKey,
     uop |-> NoUserOperation,
     chain |-> NoChainId,       \* the chain id this invocation resolved
     addrAtStart |-> NoAddress, \* accountAddress when the invocation began
     chainAtStart |-> NoChainId,\* chainId when the invocation began
     simIssued |-> FALSE,       \* it called getSenderAddress
     simWhileSet |-> FALSE,     \* ... at a moment accountAddress was set
     fetchIssued |-> FALSE,     \* it called getChainId
     nonceIssued |-> FALSE,     \* it called getAccountNonce
     ownerReq |-> NoRequest,    \* what it asked the owner key to sign
     nonceReq |-> [address |-> NoAddress, entryPointAddress |-> NoAddress,
                   key |-> NoKey],
     err |-> "", retAddr |-> NoAddress, retSig |-> <<>>, retNonce |-> 0]

\* every parameter combination of the model
Configs ==
    [version : Versions, factoryParam : {NoAddress, CustomFactory},
     address : {NoAddress, ExplicitAddress},
     clientChain : {NoChainId, StaticChainId},
     nonceKey : {NoKey, ConfiguredNonceKey}]

\* toLightSmartAccount up to the call of toSmartAccount
Construct(c) ==
    LET d == getDefaultAddresses(c.version, c.factoryParam) IN
    [version |-> c.version,
     constructed |-> d.ok,
     factoryAddress |-> d.factoryAddress,
     address |-> c.address,
     owner |-> OwnerAddress,
     index |-> 0,
     clientChain |-> c.clientChain,
     nonceKey |-> c.nonceKey,
     entryPoint |-> EntryPointOf(IF c.version = "1.1.0" THEN "0.6" ELSE "")]

AcctInit(configs, n) ==
    /\ cfg \in {Construct(c) : c \in configs}
    /\ accountAddress = cfg.address
    /\ chainId = NoChainId
    /\ procs = [p \in 1..n |-> IdleProc]
    /\ started = 0
    /\ fetchCount = 0

CanStart(p) ==
    /\ cfg.constructed
    /\ procs[p].pc \in {"idle", "done"}
    /\ started < MaxInvocations

Fresh(op) ==
    [IdleProc EXCEPT !.op = op, !.addrAtStart = accountAddress,
                     !.chainAtStart = chainId]

Fail(rec, e) == [rec EXCEPT !.pc = "done", !.err = e]

\* the digest a signing method feeds to the wrapper
DigestOf(rec) ==
    IF rec.op = "signTypedData" THEN hashTypedData(rec.msg) ELSE hashMessage(rec.msg)

\* a faulty variant: `args?.key || nonceKey`, which drops a caller-supplied key of zero
getNonceRequest_falsyKey(rec, addr) ==
    [address |-> addr, entryPointAddress |-> cfg.entryPoint.address,
     key |-> IF rec.key # NoKey /\ rec.key # 0 THEN rec.key ELSE cfg.nonceKey]

\* getNonce, once `await this.getAddress()` has a value: the getAccountNonce call
getNonceRequest(rec, addr) ==
    [address |-> addr, entryPointAddress |-> cfg.entryPoint.address,
     key |-> IF rec.key # NoKey THEN rec.key ELSE cfg.nonceKey]

\* the caller's continuation once getAddress has returned addr
afterGetAddress(rec, addr) ==
    CASE rec.op = "getAddress" -> [rec EXCEPT !.pc = "done", !.retAddr = addr]
      [] rec.op = "getNonce" ->
            [rec EXCEPT !.pc = "nonceWait", !.nonceIssued = TRUE,
                        !.nonceReq = getNonceRequest(rec, addr)]
      [] OTHER ->
            [rec EXCEPT !.pc = "ownerWait",
                        !.ownerReq = signWith1271WrapperV1(rec.chain, addr, DigestOf(rec))]

\* a faulty variant: getAddress without `if (accountAddress) return accountAddress`
getAddressEntry_noCache(rec) == [rec EXCEPT !.pc = "getFactoryArgs"]

\* getAddress up to its first await
getAddressEntry(rec) ==
    IF accountAddress # NoAddress
    THEN afterGetAddress(rec, accountAddress)
    ELSE [rec EXCEPT !.pc = "getFactoryArgs"]

\* a faulty variant: the operation is hashed with the signature it came with
userOperationToHash_keepsSignature(userOperation) == userOperation

\* signUserOperation: the operation that is hashed
userOperationToHash(userOperation) == [userOperation EXCEPT !.signature = "0x"]

\* signUserOperation once it has a chain id: hash, then ask the owner key
signUserOperationHashAndSign(rec, chain) ==
    [rec EXCEPT
        !.pc = "ownerWait", !.chain = chain,
        !.ownerReq = signMessageRaw(
            getUserOperationHash(userOperationToHash(rec.uop),
                                 cfg.entryPoint.address, cfg.entryPoint.version,
                                 chain))]

(***************************************************************************)
(* getAddress, getNonce, getStubSignature.                                 *)
(***************************************************************************)
StartGetAddress(p) ==
    /\ CanStart(p)
    /\ procs' = [procs EXCEPT ![p] = getAddressEntry(Fresh("getAddress"))]
    /\ started' = started + 1
    /\ UNCHANGED <<cfg, accountAddress, chainId, fetchCount>>
    /\ UNCHANGED <<encVars, testVars>>

StartGetNonce(p) ==
    /\ CanStart(p)
    /\ \E k \in NonceKeys \cup {NoKey} :
          procs' = [procs EXCEPT
                       ![p] = getAddressEntry([Fresh("getNonce") EXCEPT !.key = k])]
    /\ started' = started + 1
    /\ UNCHANGED <<cfg, accountAddress, chainId, fetchCount>>
    /\ UNCHANGED <<encVars, testVars>>

StartGetStubSignature(p) ==
    /\ CanStart(p)
    /\ LET t == tagSignature(cfg.version, StubSignature)
           rec == Fresh("getStubSignature") IN
       procs' = [procs EXCEPT
                    ![p] = IF t.ok THEN [rec EXCEPT !.pc = "done", !.retSig = t.sig]
                           ELSE Fail(rec, "Unknown Light Account version")]
    /\ started' = started + 1
    /\ UNCHANGED <<cfg, accountAddress, chainId, fetchCount>>
    /\ UNCHANGED <<encVars, testVars>>

\* getAddress after `await getFactoryArgs()`: the getSenderAddress call goes out
FactoryArgsResolved(p) ==
    /\ procs[p].pc = "getFactoryArgs"
    /\ LET init == getAccountInitCode(cfg.owner, cfg.index) IN
       procs' = [procs EXCEPT
                    ![p] = IF init.ok
                           THEN [@ EXCEPT !.pc = "senderWait", !.simIssued = TRUE,
                                          !.simWhileSet = (accountAddress # NoAddress)]
                           ELSE Fail(@, init.fn)]
    /\ UNCHANGED <<cfg, accountAddress, chainId, started, fetchCount>>
    /\ UNCHANGED <<encVars, testVars>>

\* what getAddress stores in accountAddress when getSenderAddress answers
resolvedAddress ==
    getSenderAddress(cfg.factoryAddress, getAccountInitCode(cfg.owner, cfg.index),
                     cfg.entryPoint.address)

\* a faulty variant: the factory address is cached, the derived address returned
SenderAddressResolved_cachesFactory(p) ==
    /\ procs[p].pc = "senderWait"
    /\ accountAddress' = cfg.factoryAddress
    /\ procs' = [procs EXCEPT ![p] = afterGetAddress(@, resolvedAddress)]
    /\ UNCHANGED <<cfg, chainId, started, fetchCount>>
    /\ UNCHANGED <<encVars, testVars>>

\* getSenderAddress answers: accountAddress is assigned and returned
SenderAddressResolved(p) ==
    /\ procs[p].pc = "senderWait"
    /\ accountAddress' = resolvedAddress
    /\ procs' = [procs EXCEPT ![p] = afterGetAddress(@, accountAddress')]
    /\ UNCHANGED <<cfg, chainId, started, fetchCount>>
    /\ UNCHANGED <<encVars, testVars>>

\* getSenderAddress throws (transport failure): nothing is cached
SenderAddressFailed(p) ==
    /\ procs[p].pc = "senderWait"
    /\ procs' = [procs EXCEPT ![p] = Fail(@, "TransportFailure")]
    /\ UNCHANGED <<cfg, accountAddress, chainId, started, fetchCount>>
    /\ UNCHANGED <<encVars, testVars>>

\* getAccountNonce answers
NonceResolved(p) ==
    /\ procs[p].pc = "nonceWait"
    /\ procs' = [procs EXCEPT ![p] = [@ EXCEPT !.pc = "done", !.retNonce = 0]]
    /\ UNCHANGED <<cfg, accountAddress, chainId, started, fetchCount>>
    /\ UNCHANGED <<encVars, testVars>>

NonceFailed(p) ==
    /\ procs[p].pc = "nonceWait"
    /\ procs' = [procs EXCEPT ![p] = Fail(@, "TransportFailure")]
    /\ UNCHANGED <<cfg, accountAddress, chainId, started, fetchCount>>
    /\ UNCHANGED <<encVars, testVars>>

(***************************************************************************)
(* getMemoizedChainId and the signing methods.                             *)
(***************************************************************************)
\* a faulty variant: getMemoizedChainId without `if (chainId) return chainId`
getMemoizedChainIdEntry_noCache(p, rec) ==
    IF cfg.clientChain # NoChainId
    THEN /\ chainId' = cfg.clientChain
         /\ procs' = [procs EXCEPT ![p] = [rec EXCEPT !.pc = "afterChainId",
                                                      !.chain = cfg.clientChain]]
         /\ UNCHANGED fetchCount
    ELSE /\ fetchCount' = fetchCount + 1
         /\ procs' = [procs EXCEPT ![p] = [rec EXCEPT !.pc = "chainIdWait",
                                                      !.fetchIssued = TRUE]]
         /\ UNCHANGED chainId

\* getMemoizedChainId up to its await, called by the invocation rec of p
getMemoizedChainIdEntry(p, rec) ==
    IF chainId # NoChainId
    THEN /\ procs' = [procs EXCEPT ![p] = [rec EXCEPT !.pc = "afterChainId",
                                                      !.chain = chainId]]
         /\ UNCHANGED <<chainId, fetchCount>>
    ELSE IF cfg.clientChain # NoChainId
    THEN /\ chainId' = cfg.clientChain
         /\ procs' = [procs EXCEPT ![p] = [rec EXCEPT !.pc = "afterChainId",
                                                      !.chain = cfg.clientChain]]
         /\ UNCHANGED fetchCount
    ELSE /\ fetchCount' = fetchCount + 1
         /\ procs' = [procs EXCEPT ![p] = [rec EXCEPT !.pc = "chainIdWait",
                                                      !.fetchIssued = TRUE]]
         /\ UNCHANGED chainId

\* sign({hash}) is this.signMessage({message: hash})
StartSign(p) ==
    /\ CanStart(p)
    /\ \E m \in Messages :
          getMemoizedChainIdEntry(p, [Fresh("sign") EXCEPT !.msg = m])
    /\ started' = started + 1
    /\ UNCHANGED <<cfg, accountAddress>>
    /\ UNCHANGED <<encVars, testVars>>

StartSignMessage(p) ==
    /\ CanStart(p)
    /\ \E m \in Messages :
          getMemoizedChainIdEntry(p, [Fresh("signMessage") EXCEPT !.msg = m])
    /\ started' = started + 1
    /\ UNCHANGED <<cfg, accountAddress>>
    /\ UNCHANGED <<encVars, testVars>>

StartSignTypedData(p) ==
    /\ CanStart(p)
    /\ \E m \in Messages :
          getMemoizedChainIdEntry(p, [Fresh("signTypedData") EXCEPT !.msg = m])
    /\ started' = started + 1
    /\ UNCHANGED <<cfg, accountAddress>>
    /\ UNCHANGED <<encVars, testVars>>

\* signUserOperation: parameters.chainId when given, else getMemoizedChainId()
StartSignUserOperation(p) ==
    /\ CanStart(p)
    /\ \E u \in UserOperations :
          LET rec == [Fresh("signUserOperation") EXCEPT !.uop = u] IN
          IF u.chainId # NoChainId
          THEN /\ procs' = [procs EXCEPT
                               ![p] = signUserOperationHashAndSign(rec, u.chainId)]
               /\ UNCHANGED <<chainId, fetchCount>>
          ELSE getMemoizedChainIdEntry(p, rec)
    /\ started' = started + 1
    /\ UNCHANGED <<cfg, accountAddress>>
    /\ UNCHANGED <<encVars, testVars>>

\* getChainId answers: chainId is assigned and returned
ChainIdResolved(p) ==
    /\ procs[p].pc = "chainIdWait"
    /\ chainId' = NetworkChainId
    /\ procs' = [procs EXCEPT ![p] = [@ EXCEPT !.pc = "afterChainId",
                                               !.chain = chainId']]
    /\ UNCHANGED <<cfg, accountAddress, started, fetchCount>>
    /\ UNCHANGED <<encVars, testVars>>

ChainIdFailed(p) ==
    /\ procs[p].pc = "chainIdWait"
    /\ procs' = [procs EXCEPT ![p] = Fail(@, "TransportFailure")]
    /\ UNCHANGED <<cfg, accountAddress, chainId, started, fetchCount>>
    /\ UNCHANGED <<encVars, testVars>>

\* the caller continues after `await getMemoizedChainId()`
AfterChainId(p) ==
    /\ procs[p].pc = "afterChainId"
    /\ procs' = [procs EXCEPT
                    ![p] = IF @.op = "signUserOperation"
                           THEN signUserOperationHashAndSign(@, @.chain)
                           ELSE getAddressEntry(@)]
    /\ UNCHANGED <<cfg, accountAddress, chainId, started, fetchCount>>
    /\ UNCHANGED <<encVars, testVars>>

\* the owner key has signed; the switch (version) tags the signature or throws
OwnerSigned(p) ==
    /\ procs[p].pc = "ownerWait"
    /\ LET t == tagSignature(cfg.version, OwnerSignature(procs[p].ownerReq)) IN
       procs' = [procs EXCEPT
                    ![p] = IF t.ok THEN [@ EXCEPT !.pc = "done", !.retSig = t.sig]
                           ELSE Fail(@, "Unknown Light Account version")]
    /\ UNCHANGED <<cfg, accountAddress, chainId, started, fetchCount>>
    /\ UNCHANGED <<encVars, testVars>>

(***************************************************************************)
(* encodeCalls.                                                            *)
(***************************************************************************)
\* `undefined` for the optional value of a call
NoValue == -1
\* `undefined` for the optional data of a call
NoData == "undefined"

Call == [to : {"0xA", "0xB"}, value : {NoValue, 0, 5}, data : {NoData, "0x", "0xab"}]

CallLists == UNION { [1..n -> Call] : n \in 0..MaxCalls }

NotEncoded == [status |-> "pending", functionName |-> "", args |-> <<>>, error |-> ""]

\* a.value ?? 0n
valueOrZero(a) == IF a.value # NoValue THEN a.value ELSE 0
\* a.data ?? "0x"
dataOrEmpty(a) == IF a.data # NoData THEN a.data ELSE "0x"

\* a faulty variant: `calls.length > 0` selects executeBatch
encodeCalls_batchOfOne(cs) ==
    IF Len(cs) > 0
    THEN [status |-> "ok", functionName |-> "executeBatch",
          args |-> << [i \in 1..Len(cs) |-> cs[i].to],
                      [i \in 1..Len(cs) |-> valueOrZero(cs[i])],
                      [i \in 1..Len(cs) |-> dataOrEmpty(cs[i])] >>,
          error |-> ""]
    ELSE [status |-> "error", functionName |-> "", args |-> <<>>,
          error |-> "TypeError"]

\* encodeCalls: encodeFunctionData keeps the function and its arguments; reading
\* calls[0].to of an empty list is a TypeError
encodeCalls(cs) ==
    IF Len(cs) > 1
    THEN [status |-> "ok", functionName |-> "executeBatch",
          args |-> << [i \in 1..Len(cs) |-> cs[i].to],
                      [i \in 1..Len(cs) |-> valueOrZero(cs[i])],
                      [i \in 1..Len(cs) |-> dataOrEmpty(cs[i])] >>,
          error |-> ""]
    ELSE IF Len(cs) = 0
    THEN [status |-> "error", functionName |-> "", args |-> <<>>,
          error |-> "TypeError"]
    ELSE [status |-> "ok", functionName |-> "execute",
          args |-> << cs[1].to, valueOrZero(cs[1]), dataOrEmpty(cs[1]) >>,
          error |-> ""]

EncodeCalls ==
    /\ encoded.status = "pending"
    /\ encoded' = encodeCalls(calls)
    /\ UNCHANGED <<calls, acctVars, testVars>>

(***************************************************************************)
(* The uninstallModule scenario: install, await, uninstall, await, fetch.  *)
(* The bundler is the transport collaborator: what it answers is not       *)
(* decided by the scenario.                                                *)
(***************************************************************************)
Hash32A == [i \in 1..32 |-> 17]
Hash32B == [i \in 1..32 |-> 34]
\* a hex value that is no 32-byte hash (20 bytes, an address)
NotAHash == [i \in 1..20 |-> 17]
NoHash == <<>>

\* viem isHash: hex of size 32
isHash(h) == Len(h) = 32

TransactionHashes == {"0xTxA", "0xTxB"}

\* `null` where a receipt is expected
NullReceipt == [present |-> FALSE, userOpHash |-> NoHash, transactionHash |-> ""]

\* what submitting an operation (installModule, uninstallModule) may return
submitUserOperation == {Hash32A, Hash32B, NotAHash}

\* the receipts waitForUserOperationReceipt may resolve to
waitForReceipt ==
    [present : {TRUE}, userOpHash : {Hash32A, Hash32B},
     transactionHash : TransactionHashes \cup {""}]

\* what getUserOperationReceipt may resolve to
getReceipt == waitForReceipt \cup {NullReceipt}

Submission(kind, hash) ==
    [kind |-> kind, hash |-> hash, installAwaited |-> opHash \in awaited]

TestInit ==
    /\ testPc = "installModule"
    /\ opHash = NoHash
    /\ uninstallModuleUserOpHash = NoHash
    /\ userOperationReceiptUninstallModule = NullReceipt
    /\ receiptUninstallModule = NullReceipt
    /\ awaited = {}
    /\ submitted = <<>>

\* const opHash = await smartClient.installModule(...)
InstallModule ==
    /\ testPc = "installModule"
    /\ \E h \in submitUserOperation :
          /\ opHash' = h
          /\ submitted' = Append(submitted, Submission("install", h))
    /\ testPc' = "waitInstall"
    /\ UNCHANGED <<uninstallModuleUserOpHash, userOperationReceiptUninstallModule,
                   receiptUninstallModule, awaited>>
    /\ UNCHANGED <<acctVars, encVars>>

\* await smartClient.waitForUserOperationReceipt({hash: opHash, timeout})
WaitInstallReceipt ==
    /\ testPc = "waitInstall"
    /\ awaited' = awaited \cup {opHash}
    /\ testPc' = "uninstallModule"
    /\ UNCHANGED <<opHash, uninstallModuleUserOpHash,
                   userOperationReceiptUninstallModule, receiptUninstallModule,
                   submitted>>
    /\ UNCHANGED <<acctVars, encVars>>

\* an awaited call of the scenario throws (transport failure, revert, timeout)
ScenarioThrows ==
    /\ testPc \in {"installModule", "waitInstall", "uninstallModule",
                   "waitUninstall", "getReceipt"}
    /\ testPc' = "failed"
    /\ UNCHANGED <<opHash, uninstallModuleUserOpHash,
                   userOperationReceiptUninstallModule, receiptUninstallModule,
                   awaited, submitted>>
    /\ UNCHANGED <<acctVars, encVars>>

\* a faulty variant: the install receipt is not awaited before uninstallModule is called
uninstallModulePositions_noAwait == {"waitInstall", "uninstallModule"}

\* the positions of the test body at which uninstallModule is called
uninstallModulePositions == {"uninstallModule"}

\* const uninstallModuleUserOpHash = await uninstallModule(...);
\* expect(isHash(uninstallModuleUserOpHash)).toBe(true)
UninstallModule ==
    /\ testPc \in uninstallModulePositions
    /\ \E h \in submitUserOperation :
          /\ uninstallModuleUserOpHash' = h
          /\ submitted' = Append(submitted, Submission("uninstall", h))
          /\ testPc' = IF isHash(h) THEN "waitUninstall" ELSE "failed"
    /\ UNCHANGED <<opHash, userOperationReceiptUninstallModule,
                   receiptUninstallModule, awaited>>
    /\ UNCHANGED <<acctVars, encVars>>

\* the three expectations on the awaited receipt
expectAwaitedReceipt(r, hash) ==
    /\ r.present
    /\ r.userOpHash = hash
    /\ r.transactionHash # ""

\* userOperationReceiptUninstallModule = await waitForUserOperationReceipt(...)
WaitUninstallReceipt ==
    /\ testPc = "waitUninstall"
    /\ \E r \in waitForReceipt :
          /\ userOperationReceiptUninstallModule' = r
          /\ testPc' = IF expectAwaitedReceipt(r, uninstallModuleUserOpHash)
                       THEN "getReceipt" ELSE "failed"
    /\ awaited' = awaited \cup {uninstallModuleUserOpHash}
    /\ UNCHANGED <<opHash, uninstallModuleUserOpHash, receiptUninstallModule,
                   submitted>>
    /\ UNCHANGED <<acctVars, encVars>>

\* expect(receiptUninstallModule?.receipt.transactionHash).toBe(
\*     userOperationReceiptUninstallModule?.receipt.transactionHash)
expectSameTransaction(fetched, waited) ==
    /\ fetched.present
    /\ fetched.transactionHash = waited.transactionHash

\* receiptUninstallModule = await smartClient.getUserOperationReceipt(...)
GetUserOperationReceipt ==
    /\ testPc = "getReceipt"
    /\ \E r \in getReceipt :
          /\ receiptUninstallModule' = r
          /\ testPc' = IF expectSameTransaction(r, userOperationReceiptUninstallModule)
                       THEN "passed" ELSE "failed"
    /\ UNCHANGED <<opHash, uninstallModuleUserOpHash,
                   userOperationReceiptUninstallModule, awaited, submitted>>
    /\ UNCHANGED <<acctVars, encVars>>

(***************************************************************************)
(* Specifications.                                                         *)
(***************************************************************************)
\* the other parts of the model at rest
AcctIdle == AcctInit({[version |-> "2.0.0", factoryParam |-> NoAddress,
                       address |-> NoAddress, clientChain |-> NoChainId,
                       nonceKey |-> NoKey]}, 0)
EncIdle == calls = <<>> /\ encoded = NotEncoded

\* Address and nonce: getAddress, getNonce, signMessage and signTypedData in any
\* order and overlap, on a version 2.0.0 account whose client has no static chain
AddressConfigs ==
    { c \in Configs : /\ c.version = "2.0.0"
                      /\ c.factoryParam = NoAddress
                      /\ c.clientChain = NoChainId }

AddressInit == AcctInit(AddressConfigs, MaxProcs) /\ EncIdle /\ TestInit

AddressNext ==
    \E p \in 1..MaxProcs :
        \/ StartGetAddress(p)
        \/ StartGetNonce(p)
        \/ StartSignMessage(p)
        \/ StartSignTypedData(p)
        \/ FactoryArgsResolved(p)
        \/ SenderAddressResolved(p)
        \/ SenderAddressFailed(p)
        \/ NonceResolved(p)
        \/ NonceFailed(p)
        \/ ChainIdResolved(p)
        \/ ChainIdFailed(p)
        \/ AfterChainId(p)
        \/ OwnerSigned(p)

SpecAddress == AddressInit /\ [][AddressNext]_vars

\* Signing: the five signature-producing methods, every version
SigningConfigs ==
    { c \in Configs : /\ c.version \in KnownVersions => c.factoryParam = NoAddress
                      /\ c.nonceKey = NoKey }

SigningInit == AcctInit(SigningConfigs, MaxSigners) /\ EncIdle /\ TestInit

SigningNext ==
    \E p \in 1..MaxSigners :
        \/ StartSign(p)
        \/ StartSignMessage(p)
        \/ StartSignTypedData(p)
        \/ StartSignUserOperation(p)
        \/ StartGetStubSignature(p)
        \/ FactoryArgsResolved(p)
        \/ SenderAddressResolved(p)
        \/ SenderAddressFailed(p)
        \/ ChainIdResolved(p)
        \/ ChainIdFailed(p)
        \/ AfterChainId(p)
        \/ OwnerSigned(p)

SpecSigning == SigningInit /\ [][SigningNext]_vars

\* Chain id: signMessage, signTypedData and signUserOperation in any order and
\* overlap, with and without a static chain
ChainIdConfigs ==
    { c \in Configs : /\ c.version = "2.0.0"
                      /\ c.factoryParam = NoAddress
                      /\ c.nonceKey = NoKey }

ChainIdInit == AcctInit(ChainIdConfigs, MaxProcs) /\ EncIdle /\ TestInit

ChainIdNext ==
    \E p \in 1..MaxProcs :
        \/ StartSignMessage(p)
        \/ StartSignTypedData(p)
        \/ StartSignUserOperation(p)
        \/ FactoryArgsResolved(p)
        \/ SenderAddressResolved(p)
        \/ SenderAddressFailed(p)
        \/ ChainIdResolved(p)
        \/ ChainIdFailed(p)
        \/ AfterChainId(p)
        \/ OwnerSigned(p)

SpecChainId == ChainIdInit /\ [][ChainIdNext]_vars

\* User operations: signUserOperation alone, in any order and overlap, every
\* known version, with and without a static chain
UserOperationConfigs ==
    { c \in Configs : /\ c.version \in KnownVersions
                      /\ c.factoryParam = NoAddress
                      /\ c.address = NoAddress
                      /\ c.nonceKey = NoKey }

UserOperationInit == AcctInit(UserOperationConfigs, MaxProcs) /\ EncIdle /\ TestInit

UserOperationNext ==
    \E p \in 1..MaxProcs :
        \/ StartSignUserOperation(p)
        \/ ChainIdResolved(p)
        \/ ChainIdFailed(p)
        \/ AfterChainId(p)
        \/ OwnerSigned(p)

SpecUserOperation == UserOperationInit /\ [][UserOperationNext]_vars

\* encodeCalls on every list of at most MaxCalls calls
EncodeInit == AcctIdle /\ TestInit /\ calls \in CallLists /\ encoded = NotEncoded

EncodeNext == EncodeCalls

SpecEncode == EncodeInit /\ [][EncodeNext]_vars

\* the uninstallModule scenario against any bundler
ModuleInit == AcctIdle /\ EncIdle /\ TestInit

ModuleNext ==
    \/ InstallModule
    \/ WaitInstallReceipt
    \/ UninstallModule
    \/ WaitUninstallReceipt
    \/ GetUserOperationReceipt
    \/ ScenarioThrows

SpecModule == ModuleInit /\ [][ModuleNext]_vars

(***************************************************************************)
(* Properties.                                                             *)
(***************************************************************************)
Running == { p \in DOMAIN procs : procs[p].pc # "idle" }
Returned == { p \in DOMAIN procs : procs[p].pc = "done" /\ procs[p].err = "" }
SigningOps == {"sign", "signMessage", "signTypedData", "signUserOperation"}
WrappedOps == {"sign", "signMessage", "signTypedData"}

\* every address a getAddress call has handed back so far: to the caller of
\* getAddress, to getNonce, to the signing methods
AddressesReturned ==
    { procs[p].retAddr : p \in { q \in Returned : procs[q].op = "getAddress" } }
    \cup { procs[p].nonceReq.address : p \in { q \in Running : procs[q].nonceIssued } }
    \cup { procs[p].ownerReq.domain.verifyingContract :
             p \in { q \in Running : procs[q].ownerReq.kind = "signTypedData" } }

\* C1: for one account every getAddress call that returns yields the same
\* address, which is the cached one, over any order and overlap of getAddress,
\* getNonce, signMessage and signTypedData; and the cached address, once set, is
\* never overwritten with a different value.
C1_AddressNeverChanges ==
    /\ [](\A a \in AddressesReturned : a = accountAddress /\ a # NoAddress)
    /\ [][accountAddress # NoAddress => accountAddress' = accountAddress]_vars

\* a cold resolution and a later cached read, both returned, in one state
C1_ColdThenCached ==
    \E p, q \in Returned :
        /\ procs[p].op = "getAddress" /\ procs[p].simIssued
        /\ procs[q].op = "getAddress" /\ ~procs[q].simIssued
        /\ procs[q].addrAtStart # NoAddress
        /\ cfg.address = NoAddress
        /\ procs[p].retAddr = procs[q].retAddr

\* C2, as stated: getSenderAddress is called only while accountAddress is empty;
\* with an explicit address it is never called and getAddress returns that
\* address; once a getAddress call has completed no later call issues it.
C2_SimulationOnlyWhileEmpty ==
    \A p \in Running :
        /\ procs[p].simIssued => ~procs[p].simWhileSet
        /\ cfg.address # NoAddress =>
              /\ ~procs[p].simIssued
              /\ (p \in Returned /\ procs[p].op = "getAddress"
                    => procs[p].retAddr = cfg.address)
        /\ procs[p].addrAtStart # NoAddress => ~procs[p].simIssued

\* C2, amended: an invocation that begins when accountAddress is already set
\* never calls getSenderAddress (so with an explicit address it is never called,
\* and getAddress returns that address); an invocation that began while it was
\* empty may still issue the call after an overlapping one has filled it.
C2_NoSimulationOnceCached ==
    \A p \in Running :
        /\ cfg.address # NoAddress =>
              /\ ~procs[p].simIssued
              /\ (p \in Returned /\ procs[p].op = "getAddress"
                    => procs[p].retAddr = cfg.address)
        /\ procs[p].addrAtStart # NoAddress => ~procs[p].simIssued

\* a getAddress call that began after a cold resolution had filled the cache
C2_LaterCallReturned ==
    \E p \in Returned :
        /\ procs[p].op = "getAddress"
        /\ cfg.address = NoAddress
        /\ procs[p].addrAtStart # NoAddress
        /\ procs[p].retAddr = accountAddress

\* C10: getNonce resolves the account address before the nonce read goes out
\* (deriving it when it is not cached) and reads the nonce for (resolved address,
\* entry point address, key), the key being the caller's when one is given and
\* the configured nonceKey otherwise.
C10_NonceReadAfterAddress ==
    \A p \in Running :
        procs[p].nonceIssued =>
            /\ procs[p].op = "getNonce"
            /\ procs[p].nonceReq.address # NoAddress
            /\ procs[p].nonceReq.address = accountAddress
            /\ procs[p].addrAtStart = NoAddress => procs[p].simIssued
            /\ procs[p].nonceReq.entryPointAddress = cfg.entryPoint.address
            /\ procs[p].nonceReq.key =
                  (IF procs[p].key = NoKey THEN cfg.nonceKey ELSE procs[p].key)

\* a nonce read that had to derive the address and fell back to the default key
C10_DerivedThenDefaultKey ==
    \E p \in Returned :
        /\ procs[p].op = "getNonce"
        /\ procs[p].simIssued
        /\ procs[p].key = NoKey
        /\ cfg.nonceKey = ConfiguredNonceKey
        /\ procs[p].nonceReq.key = ConfiguredNonceKey

\* C3: on an account whose version is neither "1.1.0" nor "2.0.0", every signing
\* method fails with the unknown-version error before the owner key is asked to
\* sign and before any network call goes out, and returns no signature.
C3_UnknownVersionFailsFirst ==
    cfg.version \notin KnownVersions =>
        \A p \in Running :
            procs[p].op \in SigningOps =>
                /\ procs[p].ownerReq.kind = "none"
                /\ ~procs[p].fetchIssued
                /\ ~procs[p].simIssued
                /\ procs[p].retSig = <<>>
                /\ procs[p].pc = "done" => procs[p].err = "Unknown Light Account version"

\* the signature an invocation must hand back, given what was signed
RawSignature(rec) ==
    IF rec.op = "getStubSignature" THEN StubSignature ELSE OwnerSignature(rec.ownerReq)

\* C6: every signature-producing method returns the raw signature unmodified for
\* version "1.1.0" and the byte 0x00 followed by the raw signature for version
\* "2.0.0"; so the stub has the tag and the length (65, or 66 with the tag) of a
\* real signature, and getStubSignature returns the same bytes on every call.
C6_VersionTagging ==
    \A p \in Returned :
        procs[p].op \in SigningOps \cup {"getStubSignature"} =>
            /\ cfg.version = "1.1.0" =>
                  /\ procs[p].retSig = RawSignature(procs[p])
                  /\ Len(procs[p].retSig) = 65
            /\ cfg.version = "2.0.0" =>
                  /\ Head(procs[p].retSig) = 0
                  /\ Tail(procs[p].retSig) = RawSignature(procs[p])
                  /\ Len(procs[p].retSig) = 66
            /\ cfg.version \in KnownVersions

\* a tagged signature of a user operation
C6_TaggedSignatureReturned ==
    \E p \in Returned :
        /\ procs[p].op = "signUserOperation"
        /\ cfg.version = "2.0.0"
        /\ Len(procs[p].retSig) = 66

\* the LightAccountMessage structure over digest d, for the invocation rec
IsWrapped(rec, d) ==
    /\ rec.ownerReq.kind = "signTypedData"
    /\ rec.ownerReq.primaryType = "LightAccountMessage"
    /\ rec.ownerReq.domain = [chainId |-> rec.chain, name |-> "LightAccount",
                              verifyingContract |-> accountAddress, version |-> "1"]
    /\ rec.ownerReq.message = d

\* the hash of the user operation of rec with its signature emptied
UserOperationDigest(rec) ==
    [alg |-> "getUserOperationHash", of |-> rec.uop.callData, signature |-> "0x",
     entryPointAddress |-> cfg.entryPoint.address,
     entryPointVersion |-> cfg.entryPoint.version, chainId |-> rec.chain]

\* the digest each method starts from
MethodDigest(rec) ==
    CASE rec.op = "signTypedData" -> [NoDigest EXCEPT !.alg = "hashTypedData", !.of = rec.msg]
      [] rec.op = "signUserOperation" -> UserOperationDigest(rec)
      [] OTHER -> [NoDigest EXCEPT !.alg = "hashMessage", !.of = rec.msg]

Tagged(rec) ==
    rec.pc = "done" /\ rec.err = "" =>
        rec.retSig = (IF cfg.version = "2.0.0" THEN <<0>> ELSE <<>>)
                        \o OwnerSignature(rec.ownerReq)

\* C7, as stated: signMessage, signTypedData and signUserOperation all have the
\* owner key sign the LightAccountMessage wrapper of their digest (chain id,
\* "LightAccount", "1", the account address), never the raw digest, and then tag.
C7_WrapperInAllThree ==
    \A p \in Running :
        (procs[p].op \in SigningOps /\ procs[p].ownerReq.kind # "none") =>
            /\ IsWrapped(procs[p], MethodDigest(procs[p]))
            /\ Tagged(procs[p])

\* C7, amended: sign, signMessage and signTypedData have the owner key sign the
\* LightAccountMessage wrapper of their digest; signUserOperation has it sign the
\* raw user-operation hash as a personal message, with no wrapper and without
\* resolving the account address; the version tagging is the same in all of them.
C7_WrapperExceptUserOperation ==
    \A p \in Running :
        (procs[p].op \in SigningOps /\ procs[p].ownerReq.kind # "none") =>
            /\ procs[p].op \in WrappedOps => IsWrapped(procs[p], MethodDigest(procs[p]))
            /\ procs[p].op = "signUserOperation" =>
                  /\ procs[p].ownerReq.kind = "signMessage"
                  /\ procs[p].ownerReq.domain = NoDomain
                  /\ procs[p].ownerReq.message = UserOperationDigest(procs[p])
                  /\ ~procs[p].simIssued
            /\ Tagged(procs[p])

\* signTypedData has returned a signature over the wrapper of its digest
C7_WrappedSignatureReturned ==
    \E p \in Returned :
        /\ procs[p].op = "signTypedData"
        /\ procs[p].ownerReq.domain.verifyingContract = accountAddress
        /\ procs[p].ownerReq.domain.chainId = NetworkChainId
        /\ procs[p].retSig # <<>>

\* C8, as stated: with a static chain no getChainId request is ever issued;
\* otherwise at most one is issued in the life of the account, over any order
\* and overlap of signMessage, signTypedData and signUserOperation.
C8_AtMostOneFetch ==
    /\ cfg.clientChain # NoChainId => fetchCount = 0
    /\ fetchCount <= 1

UsesMemoizedChainId(rec) ==
    rec.op \in SigningOps
        /\ ~(rec.op = "signUserOperation" /\ rec.uop.chainId # NoChainId)

\* C8, amended: with a static chain no getChainId request is ever issued;
\* otherwise a signing call that begins once a chain id is cached issues no
\* request and uses the cached value (signUserOperation uses its chainId
\* parameter instead when it is given one); calls that begin before that may
\* each issue a request.
C8_NoFetchOnceCached ==
    /\ cfg.clientChain # NoChainId =>
          /\ fetchCount = 0
          /\ \A p \in Running : ~procs[p].fetchIssued
    /\ \A p \in Running :
          (UsesMemoizedChainId(procs[p]) /\ procs[p].chainAtStart # NoChainId) =>
              /\ ~procs[p].fetchIssued
              /\ procs[p].chain = procs[p].chainAtStart
              /\ procs[p].chain = chainId
    /\ \A p \in Running :
          (procs[p].op = "signUserOperation" /\ procs[p].uop.chainId # NoChainId) =>
              /\ ~procs[p].fetchIssued
              /\ procs[p].chain = procs[p].uop.chainId

\* a signing call that began after a fetched chain id was cached has returned
C8_LaterCallUsedCache ==
    \E p \in Returned :
        /\ procs[p].op = "signMessage"
        /\ cfg.clientChain = NoChainId
        /\ procs[p].chainAtStart = NetworkChainId
        /\ procs[p].ownerReq.domain.chainId = NetworkChainId
        /\ fetchCount = 1

\* C4: encodeCalls of an empty list fails with the InvalidInput error, returns
\* no calldata and issues no network call.
C4_EmptyIsInvalidInput ==
    (calls = <<>> /\ encoded.status # "pending") =>
        /\ encoded.status = "error"
        /\ encoded.error = "InvalidInput"
        /\ encoded.functionName = ""
        /\ fetchCount = 0
        /\ \A p \in DOMAIN procs : procs[p].pc = "idle"

\* C5: a list of one call is encoded as execute(target, value, data), a longer
\* list as executeBatch(targets[], values[], data[]) whose i-th entries come from
\* the i-th call, in order, none dropped or repeated; a missing value is encoded
\* as zero and missing data as empty bytes.
C5_ExecuteOrBatch ==
    (Len(calls) >= 1 /\ encoded.status # "pending") =>
        /\ encoded.status = "ok"
        /\ encoded.functionName = "execute" <=> Len(calls) = 1
        /\ encoded.functionName = "executeBatch" <=> Len(calls) > 1
        /\ Len(encoded.args) = 3
        /\ Len(calls) = 1 =>
              /\ encoded.args[1] = calls[1].to
              /\ encoded.args[2] = (IF calls[1].value = NoValue THEN 0 ELSE calls[1].value)
              /\ encoded.args[3] = (IF calls[1].data = NoData THEN "0x" ELSE calls[1].data)
        /\ Len(calls) > 1 =>
              /\ \A k \in 1..3 : Len(encoded.args[k]) = Len(calls)
              /\ \A i \in 1..Len(calls) :
                    /\ encoded.args[1][i] = calls[i].to
                    /\ encoded.args[2][i] =
                          (IF calls[i].value = NoValue THEN 0 ELSE calls[i].value)
                    /\ encoded.args[3][i] =
                          (IF calls[i].data = NoData THEN "0x" ELSE calls[i].data)

\* a batch of three calls to two targets, one without value and data, encoded
C5_BatchEncoded ==
    /\ encoded.functionName = "executeBatch"
    /\ Len(calls) = 3
    /\ calls[1].to # calls[2].to
    /\ calls[2].value = NoValue /\ calls[2].data = NoData
    /\ calls[3].value = 5
    /\ encoded.args[2] = <<calls[1].value, 0, 5>>

SameButSignature(p, q) ==
    /\ procs[p].op = "signUserOperation" /\ procs[q].op = "signUserOperation"
    /\ procs[p].ownerReq.kind # "none" /\ procs[q].ownerReq.kind # "none"
    /\ procs[p].uop.callData = procs[q].uop.callData
    /\ procs[p].chain = procs[q].chain

\* C11: signUserOperation hashes the operation with its signature field replaced
\* by the empty placeholder "0x": for any two user operations that differ only in
\* the signature field they came with (same other fields, entry point, chain id,
\* owner and version) the hash handed to the owner key is the same, it is the
\* hash of the operation with signature "0x", and the returned signatures are
\* the same.
C11_IncomingSignatureIgnored ==
    \A p \in Running : \A q \in Running :
        SameButSignature(p, q) =>
            /\ procs[p].ownerReq = procs[q].ownerReq
            /\ procs[p].ownerReq.message.signature = "0x"
            /\ (p \in Returned /\ q \in Returned) => procs[p].retSig = procs[q].retSig

\* two operations that came with different signature fields were both signed,
\* and both signatures were returned
C11_TwoSignaturesReturned ==
    \E p \in Returned : \E q \in Returned :
        /\ SameButSignature(p, q)
        /\ procs[p].uop.signature = "0x"
        /\ procs[q].uop.signature = "0xdead"
        /\ procs[p].retSig # <<>>
        /\ procs[p].retSig = procs[q].retSig

====
